---- MODULE Spec2Model ----
(***************************************************************************)
(* A model of shyLLM: the port finder and server bootstrap of serve.py,    *)
(* and the /generate request handlers of shyLLM@0.0.1 and shyLLM@0.0.2.    *)
(*                                                                         *)
(* SpecServe is the bootstrap process of serve.py together with the other  *)
(* processes of the host, which may bind and release TCP ports at any      *)
(* time.  SpecApi is the request-handling application.                     *)
(***************************************************************************)
EXTENDS Integers, Sequences, FiniteSets

(***************************************************************************)
(* Bounds of the model.                                                    *)
(***************************************************************************)
\* Iterations of the `while True` loop of find_available_port that are explored.
MaxAttempts == 3
\* Longest prompt, in characters.
MaxLen == 3

(***************************************************************************)
(* serve.py                                                                *)
(***************************************************************************)
\* port = 8000 + randint(0, 65535): the base and the largest offset.
PortBase == 8000
RandMax == 65535
\* socket.bind accepts ports 0..65535 and raises OverflowError ("bind(): port
\* must be 0-65535.") for any other integer; OverflowError is an
\* ArithmeticError, not an OSError.
MaxTcpPort == 65535
\* e.errno == 98: address already in use.
EADDRINUSE == 98
\* Another errno a bind or a server start can fail with (permission denied).
EACCES == 13

\* The offsets randint may draw that the model explores: both ends of the
\* range and both sides of the largest port bind accepts.
Offsets == {0, MaxTcpPort - PortBase, MaxTcpPort - PortBase + 1, RandMax}

\* A variant of Candidate that leaves the base out.
CandidateNoBase(off) == off

\* port = 8000 + randint(0, 65535)
Candidate(off) == PortBase + off

Candidates == {Candidate(off) : off \in Offsets}

\* The ports a process of the host can hold.
HostPorts == {p \in Candidates : p >= 0 /\ p <= MaxTcpPort}

\* socket_error is OSError: the outcomes `except socket_error` catches.
SocketErrors == {"EADDRINUSE", "EACCES", "EMFILE"}

VARIABLES
    pc,          \* where the bootstrap process is
    port,        \* find_available_port's local `port`
    draws,       \* iterations of the loop begun in this invocation
    history,     \* the bind attempts of this invocation: <<[port, outcome]>>
    probeHeld,   \* the probe socket is bound to `port` and not yet closed
    ret,         \* the value find_available_port returned (run_server's `port`)
    startError,  \* errno of the OSError uvicorn.run raised, 0 when none
    exitCode,    \* the process's exit status, -1 while it runs
    diag,        \* what was printed to stderr by run_server's handler
    unhandled,   \* [exc, site] of the exception that left run_server, or NoExc
    otherBound,  \* the ports other processes of the host hold
    \* the request-handling application
    version,     \* which shyLLM.py is served
    API_KEY,     \* os.environ.get("SHYLLM_API_KEY"): {} for None, {s} for s
    modelCached, \* load_model's lru_cache holds the pipeline
    req,         \* the last request received
    entered,     \* the body of generate_text ran for req
    resp,        \* the response to it
    loadCalls,   \* calls of load_model's body made while handling req
    pipelineCalls, \* calls of llm_pipeline made while handling req
    fault        \* the exception raised inside the handler's try block

serveVars == <<pc, port, draws, history, probeHeld, ret, startError, exitCode,
               diag, unhandled, otherBound>>
apiVars == <<version, API_KEY, modelCached, req, entered, resp, loadCalls,
             pipelineCalls, fault>>
vars == <<serveVars, apiVars>>

NoExc == [exc |-> "", site |-> ""]

(***************************************************************************)
(* The bootstrap process: run_server and find_available_port.              *)
(***************************************************************************)
ServeInit ==
    /\ pc = "start"
    /\ port = 0
    /\ draws = 0
    /\ history = <<>>
    /\ probeHeld = FALSE
    /\ ret = 0
    /\ startError = 0
    /\ exitCode = -1
    /\ diag = ""
    /\ unhandled = NoExc
    /\ otherBound = {}

\* run_server() at the end of the module: the try block is entered and
\* find_available_port is called.
RunServer ==
    /\ pc = "start"
    /\ pc' = "draw"
    /\ UNCHANGED <<port, draws, history, probeHeld, ret, startError, exitCode,
                   diag, unhandled, otherBound>>
    /\ UNCHANGED apiVars

\* One iteration's start: a candidate is drawn and the probe socket is
\* created.  socket() is inside the try block: an OSError it raises (no file
\* descriptor left) is caught and the loop draws again.
DrawCandidate ==
    /\ pc = "draw"
    /\ draws < MaxAttempts
    /\ \E off \in Offsets : port' = Candidate(off)
    /\ draws' = draws + 1
    /\ \/ pc' = "bind"
       \/ pc' = "draw"
    /\ UNCHANGED <<history, probeHeld, ret, startError, exitCode, diag,
                   unhandled, otherBound>>
    /\ UNCHANGED apiVars

\* What sock.bind(("0.0.0.0", p)) can do.  A port outside 0..65535 never
\* reaches the operating system: the call raises OverflowError.  A port
\* another socket holds is refused with EADDRINUSE; any port may be refused
\* for another reason.
BindOutcomes(p) ==
    IF p < 0 \/ p > MaxTcpPort THEN {"OverflowError"}
    ELSE IF p \in otherBound THEN {"EADDRINUSE"}
    ELSE {"ok", "EACCES"}

\* except socket_error: the exceptions the loop swallows.
Caught(exc) == exc \in SocketErrors

\* A variant of Bind in which a caught socket error falls through to the
\* return instead of going round the loop.
BindFallsThrough ==
    /\ pc = "bind"
    /\ \E o \in BindOutcomes(port) :
        /\ history' = Append(history, [port |-> port, outcome |-> o])
        /\ IF o = "ok"
           THEN /\ probeHeld' = TRUE
                /\ pc' = "close"
                /\ UNCHANGED <<exitCode, unhandled>>
           ELSE IF Caught(o)
           THEN /\ pc' = "close"
                /\ UNCHANGED <<probeHeld, exitCode, unhandled>>
           ELSE /\ pc' = "crashed"
                /\ exitCode' = 1
                /\ unhandled' = [exc |-> o, site |-> "find_available_port"]
                /\ UNCHANGED probeHeld
    /\ UNCHANGED <<port, draws, ret, startError, diag, otherBound>>
    /\ UNCHANGED apiVars

\* sock.bind(("0.0.0.0", port)) and what follows it.  On success the bound
\* probe goes on to close().  A socket_error is swallowed and the loop goes
\* round again.  Any other exception leaves find_available_port; run_server
\* catches OSError only, so it leaves run_server too and the interpreter ends
\* the process with a traceback and status 1.
Bind ==
    /\ pc = "bind"
    /\ \E o \in BindOutcomes(port) :
        /\ history' = Append(history, [port |-> port, outcome |-> o])
        /\ IF o = "ok"
           THEN /\ probeHeld' = TRUE
                /\ pc' = "close"
                /\ UNCHANGED <<exitCode, unhandled>>
           ELSE IF Caught(o)
           THEN /\ pc' = "draw"
                /\ UNCHANGED <<probeHeld, exitCode, unhandled>>
           ELSE /\ pc' = "crashed"
                /\ exitCode' = 1
                /\ unhandled' = [exc |-> o, site |-> "find_available_port"]
                /\ UNCHANGED probeHeld
    /\ UNCHANGED <<port, draws, ret, startError, diag, otherBound>>
    /\ UNCHANGED apiVars

\* A variant of CloseAndReturn that returns without closing the probe.
ReturnKeepingProbe ==
    /\ pc = "close"
    /\ ret' = port
    /\ pc' = "found"
    /\ UNCHANGED <<port, draws, history, probeHeld, startError, exitCode,
                   diag, unhandled, otherBound>>
    /\ UNCHANGED apiVars

\* sock.close(); return port
CloseAndReturn ==
    /\ pc = "close"
    /\ probeHeld' = FALSE
    /\ ret' = port
    /\ pc' = "found"
    /\ UNCHANGED <<port, draws, history, startError, exitCode, diag,
                   unhandled, otherBound>>
    /\ UNCHANGED apiVars

\* What the server's own bind of p can do: p is refused with errno 98 when a
\* socket holds it, and otherwise is bound or refused for another reason.
\* The failure reaches run_server as the OSError its handler expects.
StartOutcomes(p) ==
    IF p \in otherBound \/ (probeHeld /\ port = p) THEN {EADDRINUSE}
    ELSE {0, EACCES}

\* A variant of IsAddrInUse that takes every OSError for errno 98.
AnyOSError(errno) == TRUE

\* if e.errno == 98
IsAddrInUse(errno) == errno = EADDRINUSE

\* uvicorn.run("main:app", host, reload, port) and run_server's handler.
\* When the server binds, the call blocks for as long as it serves.  When it
\* raises OSError e: errno 98 prints the diagnostic and calls sysexit(1);
\* any other errno re-raises e, which ends the process with a traceback.
StartServer ==
    /\ pc = "found"
    /\ \E e \in StartOutcomes(ret) :
        /\ startError' = e
        /\ IF e = 0
           THEN /\ pc' = "serving"
                /\ UNCHANGED <<exitCode, diag, unhandled>>
           ELSE IF IsAddrInUse(e)
           THEN /\ pc' = "exited"
                /\ diag' = "Unable to choose a free port."
                /\ exitCode' = 1
                /\ UNCHANGED unhandled
           ELSE /\ pc' = "crashed"
                /\ exitCode' = 1
                /\ unhandled' = [exc |-> "OSError", site |-> "uvicorn.run"]
                /\ UNCHANGED diag
    /\ UNCHANGED <<port, draws, history, probeHeld, ret, otherBound>>
    /\ UNCHANGED apiVars

\* uvicorn.run returns when the server stops: the port and the elapsed time
\* are printed, run_server returns and the process ends normally.
ServerStops ==
    /\ pc = "serving"
    /\ pc' = "exited"
    /\ exitCode' = 0
    /\ UNCHANGED <<port, draws, history, probeHeld, ret, startError, diag,
                   unhandled, otherBound>>
    /\ UNCHANGED apiVars

\* Another process binds a port no socket holds.
OtherBind ==
    /\ \E p \in HostPorts \ otherBound :
        /\ ~(probeHeld /\ port = p)
        /\ ~(pc = "serving" /\ ret = p)
        /\ otherBound' = otherBound \cup {p}
    /\ UNCHANGED <<pc, port, draws, history, probeHeld, ret, startError,
                   exitCode, diag, unhandled>>
    /\ UNCHANGED apiVars

\* Another process closes a socket of its own.
OtherRelease ==
    /\ \E p \in otherBound : otherBound' = otherBound \ {p}
    /\ UNCHANGED <<pc, port, draws, history, probeHeld, ret, startError,
                   exitCode, diag, unhandled>>
    /\ UNCHANGED apiVars

NextServe ==
    \/ RunServer
    \/ DrawCandidate
    \/ Bind
    \/ CloseAndReturn
    \/ StartServer
    \/ ServerStops
    \/ OtherBind
    \/ OtherRelease

(***************************************************************************)
(* shyLLM.py: the request-handling application.                            *)
(*                                                                         *)
(* A prompt is a sequence of characters.  A credential is the api_key      *)
(* query parameter as the client sent it: {} when the request carries      *)
(* none, {s} when it carries the string s.  The handlers are coroutines    *)
(* that never await, so each request is handled in one step.  The          *)
(* sampling parameters temperature and top_p are handed to the pipeline    *)
(* unchanged and decide nothing; they are left out.                        *)
(***************************************************************************)
Chars == {" ", "a"}
IsSpace(c) == c = " "

RECURSIVE SeqsUpTo(_)
SeqsUpTo(n) ==
    IF n = 0 THEN {<<>>}
    ELSE LET shorter == SeqsUpTo(n - 1)
         IN  shorter \cup {Append(s, c) : s \in {t \in shorter : Len(t) = n - 1},
                                          c \in Chars}

Prompts == SeqsUpTo(MaxLen)
MaxLengths == {-1, 0, 1}
Keys == {"", "k1", "k2"}
Creds == {{}} \cup {{k} : k \in Keys}
Secrets == {{}, {""}, {"k1"}}
Requests == [prompt : Prompts, max_length : MaxLengths, cred : Creds]

\* What load_model's body and the pipeline call can raise, and what the
\* pipeline can generate.
LoadFaults == {"OSError: no such model", "RuntimeError: out of memory"}
GenFaults == {"RuntimeError: out of memory", "IndexError: list index out of range"}
Generated == {"text1", "text2"}

\* What a request the schema layer refuses is answered with.  The validators
\* raise pydantic's ValidationError by constructing it themselves, which the
\* installed pydantic may or may not allow: the refusal is the framework's
\* 422 or, when the construction itself fails, its 500.
RejectStatuses == {422, 500}

RECURSIVE LStrip(_)
LStrip(s) == IF s # <<>> /\ IsSpace(Head(s)) THEN LStrip(Tail(s)) ELSE s

RECURSIVE RStrip(_)
RStrip(s) ==
    IF s # <<>> /\ IsSpace(s[Len(s)]) THEN RStrip(SubSeq(s, 1, Len(s) - 1))
    ELSE s

\* str.strip()
Strip(s) == RStrip(LStrip(s))

\* A variant of prompt_not_empty that strips before it tests for emptiness.
prompt_strip_first(v) ==
    IF Strip(v) = <<>> THEN [ok |-> FALSE, value |-> v]
    ELSE [ok |-> TRUE, value |-> Strip(v)]

\* Query.prompt_not_empty: `if not v` is tested on the value as received
\* (already a str), and the value returned is v.strip().
prompt_not_empty(v) ==
    IF v = <<>> THEN [ok |-> FALSE, value |-> v]
    ELSE [ok |-> TRUE, value |-> Strip(v)]

\* A variant of validate_max_length that lets 0 through.
validate_max_length_nonneg(v) ==
    IF v < 0 THEN [ok |-> FALSE, value |-> v] ELSE [ok |-> TRUE, value |-> v]

\* Query.validate_max_length: v is already an int.
validate_max_length(v) ==
    IF v <= 0 THEN [ok |-> FALSE, value |-> v] ELSE [ok |-> TRUE, value |-> v]

\* api_key: str = '' (0.0.2): an absent parameter takes the default.
ApiKeyParam(cred) == IF cred = {} THEN "" ELSE CHOOSE k \in cred : TRUE

\* A variant of Unauthorized that checks nothing (api_key unused, as in 0.0.1).
NeverUnauthorized(api_key) == FALSE

\* A variant of Unauthorized without the `api_key and` test.
UnauthorizedWhenDifferent(api_key) == API_KEY # {api_key}

\* if api_key and api_key != API_KEY
Unauthorized(api_key) == api_key # "" /\ API_KEY # {api_key}

\* A variant of ErrorDetail that reports str(e).
ErrorDetailLeaks(e) == e

\* detail = "Failed to generate text."
ErrorDetail(e) == "Failed to generate text."

\* raise HTTPException(status_code = 500, detail = ...) from e
ServerError(e) == [status |-> 500, detail |-> ErrorDetail(e)]

\* The Query object of an accepted request.
Query(r) ==
    [prompt |-> prompt_not_empty(r.prompt).value,
     max_length |-> validate_max_length(r.max_length).value]

Accepted(r) ==
    prompt_not_empty(r.prompt).ok /\ validate_max_length(r.max_length).ok

NoRequest == [prompt |-> <<>>, max_length |-> 100, cred |-> {}]
NoResponse == [status |-> 0]

ApiInit ==
    /\ version \in {"0.0.1", "0.0.2"}
    /\ API_KEY \in (IF version = "0.0.2" THEN Secrets ELSE {{}})
    \* 0.0.1 builds the pipeline when the module is imported; 0.0.2 on the
    \* first call of load_model.
    /\ modelCached = (version = "0.0.1")
    /\ req = NoRequest
    /\ entered = FALSE
    /\ resp = NoResponse
    /\ loadCalls = 0
    /\ pipelineCalls = <<>>
    /\ fault = ""

\* 0.0.2: a request the Query validators refuse never enters generate_text.
V2Reject ==
    /\ version = "0.0.2"
    /\ entered' = FALSE
    /\ \E r \in Requests :
        /\ ~Accepted(r)
        /\ req' = r
        /\ \E s \in RejectStatuses :
            resp' = [status |-> s, detail |-> "validation"]
    /\ loadCalls' = 0
    /\ pipelineCalls' = <<>>
    /\ fault' = ""
    /\ UNCHANGED <<version, API_KEY, modelCached>>
    /\ UNCHANGED serveVars

\* 0.0.2 generate_text: the credential check raises 401.
V2Unauthorized ==
    /\ version = "0.0.2"
    /\ entered' = TRUE
    /\ \E r \in Requests :
        /\ Accepted(r)
        /\ Unauthorized(ApiKeyParam(r.cred))
        /\ req' = r
        /\ resp' = [status |-> 401, detail |-> "Unauthorized API key provided."]
    /\ loadCalls' = 0
    /\ pipelineCalls' = <<>>
    /\ fault' = ""
    /\ UNCHANGED <<version, API_KEY, modelCached>>
    /\ UNCHANGED serveVars

\* 0.0.2 generate_text: load_model(MODEL_NAME) runs its body (nothing is
\* cached) and raises; lru_cache keeps no result of a call that raised.
V2LoadFails ==
    /\ version = "0.0.2"
    /\ entered' = TRUE
    /\ ~modelCached
    /\ \E r \in Requests :
        /\ Accepted(r)
        /\ ~Unauthorized(ApiKeyParam(r.cred))
        /\ req' = r
    /\ \E f \in LoadFaults :
        /\ fault' = f
        /\ resp' = ServerError(f)
    /\ loadCalls' = 1
    /\ pipelineCalls' = <<>>
    /\ UNCHANGED <<version, API_KEY, modelCached>>
    /\ UNCHANGED serveVars

\* 0.0.2 generate_text: the pipeline is obtained (from the cache, or loaded
\* and cached) and called with the Query's fields; the call, or reading
\* output[0]["generated_text"], raises.
V2PipelineFails ==
    /\ version = "0.0.2"
    /\ entered' = TRUE
    /\ \E r \in Requests :
        /\ Accepted(r)
        /\ ~Unauthorized(ApiKeyParam(r.cred))
        /\ req' = r
        /\ pipelineCalls' = <<Query(r)>>
    /\ \E f \in GenFaults :
        /\ fault' = f
        /\ resp' = ServerError(f)
    /\ loadCalls' = (IF modelCached THEN 0 ELSE 1)
    /\ modelCached' = TRUE
    /\ UNCHANGED <<version, API_KEY>>
    /\ UNCHANGED serveVars

\* 0.0.2 generate_text: the pipeline returns and the response echoes
\* query.prompt.
V2Ok ==
    /\ version = "0.0.2"
    /\ entered' = TRUE
    /\ \E r \in Requests :
        /\ Accepted(r)
        /\ ~Unauthorized(ApiKeyParam(r.cred))
        /\ req' = r
        /\ pipelineCalls' = <<Query(r)>>
        /\ \E g \in Generated :
            resp' = [status |-> 200, prompt |-> Query(r).prompt, response |-> g]
    /\ loadCalls' = (IF modelCached THEN 0 ELSE 1)
    /\ modelCached' = TRUE
    /\ fault' = ""
    /\ UNCHANGED <<version, API_KEY>>
    /\ UNCHANGED serveVars

\* 0.0.1: api_key is a required query parameter; a request without it is
\* refused by the framework.  Query has no validators.
V1Reject ==
    /\ version = "0.0.1"
    /\ entered' = FALSE
    /\ \E r \in Requests :
        /\ r.cred = {}
        /\ req' = r
    /\ resp' = [status |-> 422, detail |-> "validation"]
    /\ loadCalls' = 0
    /\ pipelineCalls' = <<>>
    /\ fault' = ""
    /\ UNCHANGED <<version, API_KEY, modelCached>>
    /\ UNCHANGED serveVars

\* 0.0.1 generate_text: the pipeline call raises.
V1PipelineFails ==
    /\ version = "0.0.1"
    /\ entered' = TRUE
    /\ \E r \in Requests :
        /\ r.cred # {}
        /\ req' = r
        /\ pipelineCalls' = <<[prompt |-> r.prompt, max_length |-> r.max_length]>>
    /\ \E f \in GenFaults :
        /\ fault' = f
        /\ resp' = ServerError(f)
    /\ loadCalls' = 0
    /\ UNCHANGED <<version, API_KEY, modelCached>>
    /\ UNCHANGED serveVars

\* 0.0.1 generate_text: the pipeline returns.
V1Ok ==
    /\ version = "0.0.1"
    /\ entered' = TRUE
    /\ \E r \in Requests :
        /\ r.cred # {}
        /\ req' = r
        /\ pipelineCalls' = <<[prompt |-> r.prompt, max_length |-> r.max_length]>>
        /\ \E g \in Generated :
            resp' = [status |-> 200, prompt |-> r.prompt, response |-> g]
    /\ loadCalls' = 0
    /\ fault' = ""
    /\ UNCHANGED <<version, API_KEY, modelCached>>
    /\ UNCHANGED serveVars

NextApi ==
    \/ V2Reject
    \/ V2Unauthorized
    \/ V2LoadFails
    \/ V2PipelineFails
    \/ V2Ok
    \/ V1Reject
    \/ V1PipelineFails
    \/ V1Ok

(***************************************************************************)
(* The specifications.  In each, the other program has not been started.   *)
(***************************************************************************)
ApiIdle ==
    /\ version = "0.0.2"
    /\ API_KEY = {}
    /\ modelCached = FALSE
    /\ req = NoRequest
    /\ entered = FALSE
    /\ resp = NoResponse
    /\ loadCalls = 0
    /\ pipelineCalls = <<>>
    /\ fault = ""

InitServe == ServeInit /\ ApiIdle
SpecServe == InitServe /\ [][NextServe]_vars

InitApi == ApiInit /\ ServeInit
SpecApi == InitApi /\ [][NextApi]_vars

(***************************************************************************)
(* Properties of serve.py, checked under SpecServe.                        *)
(***************************************************************************)
\* find_available_port has returned to run_server.
Returned ==
    /\ pc \in {"found", "serving", "exited", "crashed"}
    /\ unhandled.site # "find_available_port"

LastAttempt == history[Len(history)]

\* C1: whenever find_available_port has returned, the port it returned lies
\* in 8000..73535 and is the candidate of the last bind attempt of the
\* invocation, and that attempt's bind succeeded.
C1_ReturnedPortInRangeAndProbed ==
    Returned =>
        /\ ret >= 8000
        /\ ret <= 73535
        /\ history # <<>>
        /\ LastAttempt.port = ret
        /\ LastAttempt.outcome = "ok"

\* The finder has returned the largest port bind accepts, after a failed
\* attempt.
C1_Witness ==
    /\ pc = "found"
    /\ ret = 65535
    /\ Len(history) >= 2
    /\ LastAttempt.outcome = "ok"

\* C2: no error raised at bind time leaves find_available_port: the loop is
\* left only by returning.
C2_NoBindErrorEscapes ==
    unhandled.site # "find_available_port"

\* C3: when find_available_port has returned after N bind attempts, the first
\* N-1 failed with a socket error, the Nth succeeded (so no attempt follows a
\* success and none is skipped), and the port returned is the candidate of the
\* Nth attempt; while the loop runs, no attempt made so far has succeeded.
C3_ReturnsNthCandidateAfterNAttempts ==
    /\ Returned =>
        /\ Len(history) >= 1
        /\ \A i \in 1..(Len(history) - 1) : history[i].outcome \in SocketErrors
        /\ LastAttempt.outcome = "ok"
        /\ ret = LastAttempt.port
    /\ pc \in {"draw", "bind"} =>
        \A i \in 1..Len(history) : history[i].outcome \in SocketErrors

\* Two attempts failed, the third succeeded on a candidate that differs from
\* the first one, and that third candidate was returned.
C3_Witness ==
    /\ pc = "found"
    /\ Len(history) = 3
    /\ history[1].outcome \in SocketErrors
    /\ history[2].outcome \in SocketErrors
    /\ history[3].outcome = "ok"
    /\ history[1].port # history[3].port
    /\ ret = history[3].port

\* C4: when the server start fails with errno 98 the process prints the
\* diagnostic and exits with status 1 with no exception unhandled; when it
\* fails with any other errno the OSError leaves run_server unhandled and
\* the diagnostic exit is not taken.
C4_AddrInUseExitsCleanlyOtherErrorsPropagate ==
    /\ startError = 98 =>
        /\ pc = "exited"
        /\ exitCode = 1
        /\ diag = "Unable to choose a free port."
        /\ unhandled = NoExc
    /\ startError \notin {0, 98} =>
        /\ pc = "crashed"
        /\ unhandled = [exc |-> "OSError", site |-> "uvicorn.run"]
        /\ diag = ""

\* The server start failed with errno 98 after the finder returned a port.
C4_Witness ==
    /\ Returned
    /\ startError = 98
    /\ pc = "exited"
    /\ exitCode = 1
    /\ diag # ""

\* C8: once find_available_port has returned, the process holds no probe
\* socket (nothing keeps the returned port for the server), and a server
\* start that finds the port taken ends in the status-1 exit.
C8_ProbeReleasedBeforeServerBinds ==
    /\ Returned => ~probeHeld
    /\ (Returned /\ startError = EADDRINUSE) => (pc = "exited" /\ exitCode = 1)

\* The race: the probe's bind of ret succeeded, another process holds ret
\* now, the server's bind failed with errno 98 and the process exited 1.
C8_Witness ==
    /\ Returned
    /\ LastAttempt.port = ret
    /\ LastAttempt.outcome = "ok"
    /\ ret \in otherBound
    /\ startError = EADDRINUSE
    /\ pc = "exited"
    /\ exitCode = 1

(***************************************************************************)
(* Properties of the /generate handlers, checked under SpecApi.            *)
(***************************************************************************)
Answered == resp.status # 0

\* The non-empty credential of the request, as a set: {} when the request
\* carries none or an empty one.
SuppliedKey == req.cred \ {""}

\* generate_text got as far as its try block.
ReachedGeneration == loadCalls > 0 \/ pipelineCalls # <<>>

\* s is raw without its leading and trailing whitespace.
IsStripOf(s, raw) ==
    /\ (s # <<>> => ~IsSpace(s[1]) /\ ~IsSpace(s[Len(s)]))
    /\ \E i \in 0..Len(raw) :
        /\ i + Len(s) <= Len(raw)
        /\ SubSeq(raw, i + 1, i + Len(s)) = s
        /\ \A k \in 1..i : IsSpace(raw[k])
        /\ \A k \in (i + Len(s) + 1)..Len(raw) : IsSpace(raw[k])

WhitespaceOnly(raw) == raw # <<>> /\ \A k \in 1..Len(raw) : IsSpace(raw[k])

\* C5: in generate_text of 0.0.2, a request whose (non-empty) credential
\* differs from the configured secret is answered 401 and neither load_model
\* nor the pipeline is called; a request without a credential, when no secret
\* is configured, is not answered 401 and is answered 200 unless generation
\* raised.
C5_MismatchUnauthorizedOpenWhenUnconfigured ==
    (version = "0.0.2" /\ entered) =>
        /\ (SuppliedKey # {} /\ SuppliedKey # API_KEY) =>
            /\ resp.status = 401
            /\ ~ReachedGeneration
        /\ (req.cred = {} /\ API_KEY = {}) =>
            /\ resp.status # 401
            /\ ReachedGeneration
            /\ (fault = "" => resp.status = 200)

\* A secret is configured and a request with another key was answered 401.
C5_Witness ==
    /\ version = "0.0.2"
    /\ entered
    /\ API_KEY = {"k1"}
    /\ req.cred = {"k2"}
    /\ resp.status = 401

\* C6: whenever load_model or the pipeline raised while a request was
\* handled (either version), the response is status 500 with the detail
\* "Failed to generate text." and nothing else, whatever was raised.
C6_FaultsBecomeGeneric500 ==
    fault # "" => resp = [status |-> 500, detail |-> "Failed to generate text."]

\* The lazily cached model load raised and the caller got the 500.
C6_Witness ==
    /\ version = "0.0.2"
    /\ fault = "OSError: no such model"
    /\ loadCalls = 1
    /\ resp.status = 500

\* C7: in 0.0.2 a request with an empty prompt or with max_length <= 0 never
\* enters generate_text: load_model and the pipeline are not called for it
\* and it is not answered 200.
C7_InvalidQueryNeverReachesGeneration ==
    (version = "0.0.2" /\ Answered /\ (req.prompt = <<>> \/ req.max_length <= 0)) =>
        /\ ~entered
        /\ ~ReachedGeneration
        /\ resp.status \notin {200, 401}

\* A request with a good prompt and max_length 0 was refused, with the model
\* already cached.
C7_Witness ==
    /\ version = "0.0.2"
    /\ Answered
    /\ req.prompt # <<>>
    /\ req.max_length = 0
    /\ modelCached
    /\ ~entered

\* C9: in generate_text of 0.0.2 a request is answered 401 exactly when its
\* api_key is non-empty and differs from the configured secret; a request
\* with an empty api_key goes on to generation.
C9_UnauthorizedIffNonEmptyMismatch ==
    (version = "0.0.2" /\ entered) =>
        /\ resp.status = 401 <=> (SuppliedKey # {} /\ SuppliedKey # API_KEY)
        /\ SuppliedKey = {} => ReachedGeneration

\* A secret is configured and a request without a credential was served.
C9_Witness ==
    /\ version = "0.0.2"
    /\ API_KEY = {"k1"}
    /\ req.cred = {}
    /\ resp.status = 200

\* C10: in 0.0.2 a non-empty prompt of whitespace only passes validation, and
\* every call of the pipeline, and every 200 response, carries the prompt
\* without its leading and trailing whitespace (the empty string for a
\* whitespace-only prompt).
C10_PromptStrippedAfterEmptinessTest ==
    version = "0.0.2" =>
        /\ (Answered /\ WhitespaceOnly(req.prompt) /\ req.max_length > 0) => entered
        /\ pipelineCalls # <<>> =>
            /\ IsStripOf(pipelineCalls[1].prompt, req.prompt)
            /\ (WhitespaceOnly(req.prompt) => pipelineCalls[1].prompt = <<>>)
        /\ resp.status = 200 =>
            /\ pipelineCalls # <<>>
            /\ resp.prompt = pipelineCalls[1].prompt

\* A prompt of two spaces was served: the pipeline got the empty string.
C10_Witness ==
    /\ version = "0.0.2"
    /\ req.prompt = <<" ", " ">>
    /\ resp.status = 200
    /\ resp.prompt = <<>>
    /\ pipelineCalls = <<[prompt |-> <<>>, max_length |-> req.max_length]>>

====
